---------------------------- MODULE Spec2Model ----------------------------
(***************************************************************************)
(* Model of app.py (pautaplenario): the bounded TTL cache shared by every  *)
(* lookup, the cache-checked lookups of the aggregation service, the       *)
(* principal-proposition resolver, the HTML table extractors and the       *)
(* opinion selector.                                                       *)
(*                                                                         *)
(* Python values are modelled as follows.  A dict is a TLA+ function whose *)
(* DOMAIN is the set of keys present; a list is a sequence; a str is       *)
(* either an atom (a TLA+ string) or, where stripping and replacing are    *)
(* modelled, a sequence of tokens.  _CACHE is a sequence of entries in the *)
(* dict's insertion order (CPython dicts iterate in insertion order, and   *)
(* assigning to an existing key keeps its position).                       *)
(***************************************************************************)
EXTENDS Integers, Sequences, FiniteSets, TLC

VARIABLES
    cache,   \* _CACHE: <<[key, val, ts], ...>> in insertion order
    now,     \* the value _now() returns
    last,    \* observation of the last call: what it was given and returned
    hist,    \* history variable: per key, the last _cache_set and what followed
    thr,     \* request threads of the concurrent specification
    inp,     \* input of the pure functions (resolver, extractors, api_pauta)
    outp     \* their result

vars == <<cache, now, last, hist, thr, inp, outp>>

-----------------------------------------------------------------------------
(* Bounds of the model *)

\* Stands for the literal 200 of _cache_set; the cache operators are
\* parametric in it and every formula about capacity is stated with it.
CacheLimit == 2

\* Clock: _now() advances in steps of TickStep seconds up to MaxNow.
TickStep == 300
MaxNow == 600

\* Distinct keys of the cache specification: enough to overflow the cache.
NKeys == 4

-----------------------------------------------------------------------------
(* Program constants *)

_TTL_SECONDS == 300

\* Python's None, as a cached or returned value.
None == [none |-> TRUE]

-----------------------------------------------------------------------------
(* The TTL cache: _cache_get, _cache_set *)

CacheKeys(c) == {c[i].key : i \in 1..Len(c)}

CacheIndex(c, key) == CHOOSE i \in 1..Len(c) : c[i].key = key

\* dict.pop(key, None): remove the entry if present, keep the others' order.
DictPop(c, key) == SelectSeq(c, LAMBDA e : e.key # key)

DictStoreAtEnd(c, key, v, t) ==
    Append(DictPop(c, key), [key |-> key, val |-> v, ts |-> t])

\* dict[key] = v: in place for a key already present, appended otherwise.
DictStore(c, key, v, t) ==
    IF key \in CacheKeys(c)
    THEN [c EXCEPT ![CacheIndex(c, key)] = [key |-> key, val |-> v, ts |-> t]]
    ELSE Append(c, [key |-> key, val |-> v, ts |-> t])

ExpiredAtTTL(ts, t) == t - ts >= _TTL_SECONDS

\* if _now() - ts > _TTL_SECONDS
Expired(ts, t) == t - ts > _TTL_SECONDS

\* _cache_get(key) at time t on cache c: the value returned and the cache left.
\* A stored tuple (val, ts) is never falsy, so `if not v` is the missing-key test.
_cache_get(c, key, t) ==
    IF key \notin CacheKeys(c)
    THEN [ret |-> None, cache |-> c]
    ELSE LET e == c[CacheIndex(c, key)]
         IN  IF Expired(e.ts, t)
             THEN [ret |-> None, cache |-> DictPop(c, key)]
             ELSE [ret |-> e.val, cache |-> c]

\* if len(_CACHE) > 200
OverLimit(c) == Len(c) > CacheLimit

\* _cache_set(key, val) at time t on cache c: the cache left.
_cache_set(c, key, val, t) ==
    LET c1 == IF OverLimit(c) THEN Tail(c) ELSE c
    IN  DictStore(c1, key, val, t)

-----------------------------------------------------------------------------
(* Specification Spec: sequential calls of _cache_set and _cache_get *)

Keys == 1..NKeys
Vals == {[v |-> "a"], [v |-> "b"]}

\* The key whose history hist follows (the cache treats every key alike).
Probe == CHOOSE k \in Keys : TRUE

NoHist == [set |-> FALSE, val |-> None, ts |-> 0, evicted |-> FALSE]
NoLast == [op |-> "none", key |-> 0, ret |-> None, at |-> 0]

Idle == <<>>

Init ==
    /\ cache = <<>>
    /\ now = 0
    /\ last = NoLast
    /\ hist = NoHist
    /\ thr = Idle
    /\ inp = Idle
    /\ outp = Idle

\* hist after a _cache_set(k, v) that turned cache c into c2: the Probe's last
\* set, and whether the Probe's entry has since been removed for capacity.
HistAfterSet(c, c2, k, v) ==
    IF k = Probe
    THEN [set |-> TRUE, val |-> v, ts |-> now, evicted |-> FALSE]
    ELSE IF Probe \in CacheKeys(c) /\ Probe \notin CacheKeys(c2)
         THEN [hist EXCEPT !.evicted = TRUE]
         ELSE hist

CacheSet(k, v) ==
    LET c2 == _cache_set(cache, k, v, now)
    IN  /\ cache' = c2
        /\ last' = [op |-> "set", key |-> k, ret |-> None, at |-> now]
        /\ hist' = HistAfterSet(cache, c2, k, v)
        /\ UNCHANGED <<now, thr, inp, outp>>

CacheGet(k) ==
    LET r == _cache_get(cache, k, now)
    IN  /\ cache' = r.cache
        /\ last' = [op |-> "get", key |-> k, ret |-> r.ret, at |-> now]
        /\ UNCHANGED <<now, hist, thr, inp, outp>>

Tick ==
    /\ now + TickStep <= MaxNow
    /\ now' = now + TickStep
    /\ UNCHANGED <<cache, last, hist, thr, inp, outp>>

Next ==
    \/ \E k \in Keys, v \in Vals : CacheSet(k, v)
    \/ \E k \in Keys : CacheGet(k)
    \/ Tick

Spec == Init /\ [][Next]_vars

\* The last call was _cache_get(Probe), made at age `last.at - hist.ts` of the
\* Probe's last _cache_set.
GotProbe == last.op = "get" /\ last.key = Probe
ProbeAge == last.at - hist.ts

(* C1: immediately after every _cache_set the cache holds at most the limit
   (200) of entries. *)
C1_CapacityBound == last.op = "set" => Len(cache) <= CacheLimit

(* C2, as claimed: a key set to v at T and not set again is returned unchanged
   by every _cache_get at T' with T' - T <= TTL; at T' - T > TTL the get returns
   None and removes the entry; a key never set returns None. *)
C2_CacheTTL_AsClaimed ==
    GotProbe =>
        /\ (hist.set /\ ProbeAge <= _TTL_SECONDS => last.ret = hist.val)
        /\ (hist.set /\ ProbeAge > _TTL_SECONDS =>
                last.ret = None /\ Probe \notin CacheKeys(cache))
        /\ (~hist.set => last.ret = None)

(* C2, amended: the same, for a key whose entry no _cache_set has removed for
   capacity since it was set; a key whose entry was removed for capacity
   returns None whatever its age. *)
C2_CacheTTL ==
    GotProbe =>
        /\ (hist.set /\ ~hist.evicted /\ ProbeAge <= _TTL_SECONDS =>
                last.ret = hist.val)
        /\ (hist.set /\ ProbeAge > _TTL_SECONDS =>
                last.ret = None /\ Probe \notin CacheKeys(cache))
        /\ (hist.set /\ hist.evicted => last.ret = None)
        /\ (~hist.set => last.ret = None)

\* A read exactly TTL seconds after the set, served with the value set.
C2_Witness ==
    /\ GotProbe /\ hist.set /\ ~hist.evicted
    /\ ProbeAge = _TTL_SECONDS
    /\ last.ret = hist.val /\ last.ret # None

-----------------------------------------------------------------------------
(* Specification SpecConc: request threads calling _cache_get and _cache_set
   on the shared _CACHE.  The code takes no lock, so a thread switch can fall
   between any two of a call's steps; each step below is one dict operation
   (atomic under the interpreter lock). *)

NThreads == 2
MaxCalls == 3

Threads == 1..NThreads
ConcVal == [v |-> "a"]

\* A thread between calls, having made n calls.
Between(n) == [pc |-> "idle", key |-> 0, oldest |-> 0, ts |-> 0, calls |-> n,
               err |-> "none"]

InitConc ==
    /\ cache = <<>>
    /\ now = 0
    /\ last = NoLast
    /\ hist = NoHist
    /\ thr = [t \in Threads |-> Between(0)]
    /\ inp = Idle
    /\ outp = Idle

CanCall(t) == thr[t].pc = "idle" /\ thr[t].calls < MaxCalls

Returned(t) == Between(thr[t].calls)

\* _cache_set, line 85: if len(_CACHE) > 200
SetCheckLen(t, k) ==
    /\ CanCall(t)
    /\ thr' = [thr EXCEPT ![t] = [@ EXCEPT
                  !.pc = IF OverLimit(cache) THEN "set_oldest" ELSE "set_store",
                  !.key = k, !.calls = @ + 1]]
    /\ UNCHANGED <<cache, now, last, hist, inp, outp>>

\* _cache_set, line 86: next(iter(_CACHE)); StopIteration on an empty dict
SetOldest(t) ==
    /\ thr[t].pc = "set_oldest"
    /\ thr' = [thr EXCEPT ![t] =
                  IF cache = <<>>
                  THEN [@ EXCEPT !.pc = "raised", !.err = "StopIteration"]
                  ELSE [@ EXCEPT !.pc = "set_pop", !.oldest = cache[1].key]]
    /\ UNCHANGED <<cache, now, last, hist, inp, outp>>

\* _cache_set, line 86: _CACHE.pop(k0), with no default: KeyError if k0 is gone
SetPop(t) ==
    /\ thr[t].pc = "set_pop"
    /\ IF thr[t].oldest \in CacheKeys(cache)
       THEN /\ cache' = DictPop(cache, thr[t].oldest)
            /\ thr' = [thr EXCEPT ![t].pc = "set_store"]
       ELSE /\ cache' = cache
            /\ thr' = [thr EXCEPT ![t] = [@ EXCEPT !.pc = "raised", !.err = "KeyError"]]
    /\ UNCHANGED <<now, last, hist, inp, outp>>

\* _cache_set, line 87: _CACHE[key] = (val, _now())
SetStore(t) ==
    /\ thr[t].pc = "set_store"
    /\ cache' = DictStore(cache, thr[t].key, ConcVal, now)
    /\ thr' = [thr EXCEPT ![t] = Returned(t)]
    /\ UNCHANGED <<now, last, hist, inp, outp>>

\* _cache_get, lines 74-77: v = _CACHE.get(key); return None if missing
GetRead(t, k) ==
    /\ CanCall(t)
    /\ thr' = [thr EXCEPT ![t] =
                  IF k \in CacheKeys(cache)
                  THEN [@ EXCEPT !.pc = "get_check", !.key = k, !.calls = @ + 1,
                                 !.ts = cache[CacheIndex(cache, k)].ts]
                  ELSE [@ EXCEPT !.calls = @ + 1]]
    /\ UNCHANGED <<cache, now, last, hist, inp, outp>>

\* _cache_get, line 78: if _now() - ts > _TTL_SECONDS; line 81: return val
GetCheck(t) ==
    /\ thr[t].pc = "get_check"
    /\ thr' = [thr EXCEPT ![t] =
                  IF Expired(thr[t].ts, now)
                  THEN [@ EXCEPT !.pc = "get_pop"]
                  ELSE Returned(t)]
    /\ UNCHANGED <<cache, now, last, hist, inp, outp>>

\* _cache_get, lines 79-80: _CACHE.pop(key, None); return None
GetPop(t) ==
    /\ thr[t].pc = "get_pop"
    /\ cache' = DictPop(cache, thr[t].key)
    /\ thr' = [thr EXCEPT ![t] = Returned(t)]
    /\ UNCHANGED <<now, last, hist, inp, outp>>

NextConc ==
    \/ \E t \in Threads, k \in Keys : SetCheckLen(t, k)
    \/ \E t \in Threads : SetOldest(t)
    \/ \E t \in Threads : SetPop(t)
    \/ \E t \in Threads : SetStore(t)
    \/ \E t \in Threads, k \in Keys : GetRead(t, k)
    \/ \E t \in Threads : GetCheck(t)
    \/ \E t \in Threads : GetPop(t)
    \/ Tick

SpecConc == InitConc /\ [][NextConc]_vars

(* C9: under every interleaving of the steps of concurrent _cache_get and
   _cache_set calls no call raises an error, and the cache never holds more
   entries than a sequential order of the calls can leave (the limit plus the
   entry just stored). *)
C9_ConcurrentSafe ==
    /\ \A t \in Threads : thr[t].pc # "raised"
    /\ Len(cache) <= CacheLimit + 1

-----------------------------------------------------------------------------
(* The proposition resolver: _get, _principal_from_item.

   A raw agenda entry is a dict; a key whose value is None is modelled as a
   key that is absent, which _get does not tell apart (both give the default).
   Ids are strings, "" the empty id. *)

EmptyDict == <<>>

Restrict(f, D) == [k \in D |-> f[k]]

\* _get(d, p, default=...) for a one-key path on a dict d.
_get(d, p, default) == IF p \in DOMAIN d THEN d[p] ELSE default

\* _get(d, p, q, default=...): d[p] is a dict when present.
_get2(d, p, q, default) == IF p \in DOMAIN d THEN _get(d[p], q, default) ELSE default

\* The old test, before PEP/442 was added to it.
OnlyPPP(prop) ==
    \/ _get(prop, "siglaTipo", "") = "PPP"
    \/ _get(prop, "codTipo", 0) = 192

\* line 128: (sigla_tipo in ["PPP", "PEP"]) or (cod_tipo in [192, 442])
is_relacionada(prop) ==
    \/ _get(prop, "siglaTipo", "") \in {"PPP", "PEP"}
    \/ _get(prop, "codTipo", 0) \in {192, 442}

\* A dict is truthy iff it is not empty.
Truthy(d) == DOMAIN d # {}

\* _principal_from_item(item_raw): (principal_id, ementa_ok)
_principal_from_item(item_raw) ==
    LET prop == _get(item_raw, "proposicao_", EmptyDict)
        relacionada == _get(item_raw, "proposicaoRelacionada_", EmptyDict)
    IN  IF is_relacionada(prop) /\ Truthy(relacionada)
        THEN [id |-> _get(relacionada, "id", ""),
              ementa |-> _get(relacionada, "ementa", "")]
        ELSE [id |-> _get(prop, "id", ""),
              ementa |-> _get(prop, "ementa", "")]

-----------------------------------------------------------------------------
(* Specification SpecPrincipal: _principal_from_item on every raw entry drawn
   from the sets below. *)

Siglas == {"PPP", "PEP", "PL", "ppp"}
CodTipos == {192, 442, 139}
PropIds == {"", "p1", "p2"}
RelIds == {"", "p1", "p3"}
Ementas == {"", "e1"}
RelEmentas == {"", "e2"}

PropFields == {"siglaTipo", "codTipo", "id", "ementa"}
RelFields == {"id", "ementa"}
ItemFields == {"proposicao_", "proposicaoRelacionada_"}

InitPrincipal ==
    /\ cache = <<>>
    /\ now = 0
    /\ last = NoLast
    /\ hist = NoHist
    /\ thr = Idle
    /\ \E s \in Siglas, c \in CodTipos, i \in PropIds, e \in Ementas,
          ri \in RelIds, re \in RelEmentas,
          PD \in SUBSET PropFields, RD \in SUBSET RelFields, ID \in SUBSET ItemFields :
          inp = Restrict(
                  [proposicao_ |->
                      Restrict([siglaTipo |-> s, codTipo |-> c, id |-> i, ementa |-> e], PD),
                   proposicaoRelacionada_ |->
                      Restrict([id |-> ri, ementa |-> re], RD)],
                  ID)
    /\ outp = [done |-> FALSE]

ResolvePrincipal ==
    /\ ~outp.done
    /\ outp' = [done |-> TRUE, res |-> _principal_from_item(inp)]
    /\ UNCHANGED <<cache, now, last, hist, thr, inp>>

NextPrincipal == ResolvePrincipal

SpecPrincipal == InitPrincipal /\ [][NextPrincipal]_vars

\* The entry's embedded proposition and related proposition, {} when absent.
InpProp == IF "proposicao_" \in DOMAIN inp THEN inp["proposicao_"] ELSE EmptyDict
InpRel == IF "proposicaoRelacionada_" \in DOMAIN inp
          THEN inp["proposicaoRelacionada_"] ELSE EmptyDict

Has(d, k) == k \in DOMAIN d
FieldOrEmpty(d, k) == IF Has(d, k) THEN d[k] ELSE ""

\* The embedded proposition is of a wrapper type.
InpIsWrapper ==
    \/ Has(InpProp, "siglaTipo") /\ InpProp["siglaTipo"] \in {"PPP", "PEP"}
    \/ Has(InpProp, "codTipo") /\ InpProp["codTipo"] \in {192, 442}

(* C5: _principal_from_item returns the related proposition's (id, ementa)
   exactly when the embedded proposition is of a wrapper type (siglaTipo PPP or
   PEP, or codTipo 192 or 442) and a non-empty related sub-record is present;
   otherwise it returns the embedded proposition's own (id, ementa). *)
C5_PrincipalResolution ==
    outp.done =>
        IF InpIsWrapper /\ DOMAIN InpRel # {}
        THEN /\ outp.res.id = FieldOrEmpty(InpRel, "id")
             /\ outp.res.ementa = FieldOrEmpty(InpRel, "ementa")
        ELSE /\ outp.res.id = FieldOrEmpty(InpProp, "id")
             /\ outp.res.ementa = FieldOrEmpty(InpProp, "ementa")

\* A PEP wrapper (by its numeric code only) resolved to its related record,
\* whose id and ementa differ from the wrapper's own.
C5_Witness ==
    /\ outp.done
    /\ Has(InpProp, "codTipo") /\ InpProp["codTipo"] = 442
    /\ ~Has(InpProp, "siglaTipo")
    /\ Has(InpProp, "id") /\ InpProp["id"] = "p2"
    /\ Has(InpRel, "id") /\ InpRel["id"] = "p3"
    /\ outp.res = [id |-> "p3", ementa |-> FieldOrEmpty(InpRel, "ementa")]

(* C6: for every raw entry whose embedded proposition has a non-empty id, the
   resolved principal id is non-empty. *)
C6_IdEmptyOnlyWithoutIdentity ==
    outp.done /\ FieldOrEmpty(InpProp, "id") # "" => outp.res.id # ""

-----------------------------------------------------------------------------
(* Text and markup.

   A str is a sequence of tokens: " " is one whitespace character, "1", "2",
   ... are digits, and every other token is a run of characters that begins
   and ends with a word character and is matched only as a whole ("PRLP",
   "Em tramitação", "Inteiro teor", "x").  A <td> is the sequence of its text
   nodes; a table is [ths, trs]: the keyword sets of its <th> cells (the
   keywords the lower-cased header text contains) and its <tr> rows, each the
   sequence of its <td> cells; a document is the sequence of its tables. *)

Space == " "
Digits == {"0", "1", "2", "3", "4", "5", "6", "7", "8", "9"}
DigitVal(d) == CASE d = "0" -> 0 [] d = "1" -> 1 [] d = "2" -> 2 [] d = "3" -> 3
                 [] d = "4" -> 4 [] d = "5" -> 5 [] d = "6" -> 6 [] d = "7" -> 7
                 [] d = "8" -> 8 [] d = "9" -> 9

RECURSIVE LStrip(_)
LStrip(s) == IF s # <<>> /\ Head(s) = Space THEN LStrip(Tail(s)) ELSE s

RECURSIVE RStrip(_)
RStrip(s) == IF s # <<>> /\ s[Len(s)] = Space THEN RStrip(SubSeq(s, 1, Len(s) - 1)) ELSE s

\* str.strip()
Strip(s) == RStrip(LStrip(s))

\* str.replace(tok, "") for a whole-token pattern
Remove(s, tok) == SelectSeq(s, LAMBDA t : t # tok)

\* x or default, for a str x
OrElse(s, default) == IF s = <<>> THEN default ELSE s

RECURSIVE Concat(_)
Concat(ss) == IF ss = <<>> THEN <<>> ELSE Head(ss) \o Concat(Tail(ss))

\* td.text: the text nodes, concatenated
Text(td) == Concat(td)

RECURSIVE JoinSp(_)
JoinSp(ss) == IF ss = <<>> THEN <<>>
              ELSE IF Len(ss) = 1 THEN Head(ss)
              ELSE Head(ss) \o <<Space>> \o JoinSp(Tail(ss))

\* td.get_text(" ", strip=True): the stripped non-empty text nodes, joined by " "
GetText(td) ==
    JoinSp(SelectSeq([i \in 1..Len(td) |-> Strip(td[i])], LAMBDA n : n # <<>>))

\* normtxt(s) = (s or "").strip()
normtxt(s) == Strip(s)

\* int(digits)
RECURSIVE ToInt(_)
ToInt(ds) == IF ds = <<>> THEN 0
             ELSE 10 * ToInt(SubSeq(ds, 1, Len(ds) - 1)) + DigitVal(ds[Len(ds)])

\* str(n) for n >= 0
RECURSIVE ToStr(_)
ToStr(n) == IF n < 10 THEN <<CHOOSE d \in Digits : DigitVal(d) = n>>
            ELSE ToStr(n \div 10) \o ToStr(n % 10)

Sentinel == <<"Descrição não disponível">>
EmTramitacao == <<"Em tramitação">>
ND == <<"N/D">>

\* every <tr> of every table but each table's first, in document order
RECURSIVE DataRows(_)
DataRows(doc) ==
    IF doc = <<>> THEN <<>>
    ELSE (IF Head(doc).trs = <<>> THEN <<>> ELSE Tail(Head(doc).trs))
         \o DataRows(Tail(doc))

-----------------------------------------------------------------------------
(* obter_destaques_emendas, lines 281-295 *)

\* lines 286-290: the row is kept
DestaqueKept(cols) == Len(cols) >= 5 /\ Strip(Text(cols[5])) = EmTramitacao

\* lines 291-295
DestaqueOf(cols) ==
    [numero |-> Strip(Text(cols[1])),
     autoria |-> Strip(Text(cols[2])),
     descricao |-> OrElse(Strip(Text(cols[3])), Sentinel),
     tipo_destaque |-> Strip(Text(cols[4])),
     situacao |-> Strip(Text(cols[5]))]

ExtractDestaques(doc) ==
    LET kept == SelectSeq(DataRows(doc), DestaqueKept)
    IN  [i \in 1..Len(kept) |-> DestaqueOf(kept[i])]

-----------------------------------------------------------------------------
(* obter_procedimentos_regimentais, lines 448-468 *)

\* datetime.strptime(raw, "%d/%m/%Y") succeeds: day and month may lack the
\* leading zero
DateTexts == {<<"01/03/2024">>, <<"1/3/2024">>}

\* lines 458-461: strptime(...).strftime("%d/%m/%Y"), else data_raw or "N/D"
DataFmt(raw) == IF raw \in DateTexts THEN <<"01/03/2024">> ELSE OrElse(raw, ND)

ProcedimentoKeptAt4(cols) == Len(cols) >= 5 /\ Strip(Text(cols[5])) = EmTramitacao

\* lines 452-456: the row is kept
ProcedimentoKept(cols) == Len(cols) >= 5 /\ Strip(Text(cols[4])) = EmTramitacao

\* lines 457-468
ProcedimentoOf(cols) ==
    [numero |-> Strip(Text(cols[1])),
     autoria |-> Strip(Text(cols[2])),
     descricao |-> Strip(Text(cols[3])),
     situacao |-> Strip(Text(cols[4])),
     data |-> DataFmt(Strip(Text(cols[5])))]

ExtractProcedimentos(doc) ==
    LET kept == SelectSeq(DataRows(doc), ProcedimentoKept)
    IN  [i \in 1..Len(kept) |-> ProcedimentoOf(kept[i])]

-----------------------------------------------------------------------------
(* obter_pareceres_substitutivos_votos, lines 331-424 *)

Max2(a, b) == IF a >= b THEN a ELSE b
Min2(a, b) == IF a <= b THEN a ELSE b

\* idx_contains(substr), lines 337-341: the first header containing the
\* keyword, from 0, or -1
idx_contains(ths, substr) ==
    IF \E i \in 1..Len(ths) : substr \in ths[i]
    THEN (CHOOSE i \in 1..Len(ths) :
            /\ substr \in ths[i]
            /\ \A j \in 1..(i - 1) : substr \notin ths[j]) - 1
    ELSE -1

\* lines 343-347
KeywordIdx(ths) ==
    [psv  |-> idx_contains(ths, "pareceres"),
     tipo |-> idx_contains(ths, "tipo de propos"),
     data |-> idx_contains(ths, "data de apres"),
     aut  |-> idx_contains(ths, "autor"),
     desc |-> idx_contains(ths, "descri")]

MinIdx(ix) == Min2(ix.psv, Min2(ix.tipo, Min2(ix.data, Min2(ix.aut, ix.desc))))
MaxIdx(ix) == Max2(ix.desc, Max2(ix.aut, Max2(ix.data, Max2(ix.tipo, ix.psv))))

PositionalReversed == [psv |-> 4, tipo |-> 3, data |-> 2, aut |-> 1, desc |-> 0]

\* line 350
PositionalIdx == [psv |-> 0, tipo |-> 1, data |-> 2, aut |-> 3, desc |-> 4]

\* lines 349-350: the columns of a table with headers ths
ColumnIdx(ths) ==
    IF MinIdx(KeywordIdx(ths)) < 0 /\ Len(ths) >= 5
    THEN PositionalIdx
    ELSE KeywordIdx(ths)

\* lines 334-335 and 352-353: the table is parsed
TableResolved(ths) == ths # <<>> /\ MinIdx(ColumnIdx(ths)) >= 0

IsWordTok(t) == t # Space

\* the index after the whitespace run that starts at i
RECURSIVE SkipSpaces(_, _)
SkipSpaces(s, i) == IF i <= Len(s) /\ s[i] = Space THEN SkipSpaces(s, i + 1) ELSE i

\* the index after the digit run that starts at i
RECURSIVE SkipDigits(_, _)
SkipDigits(s, i) == IF i <= Len(s) /\ s[i] \in Digits THEN SkipDigits(s, i + 1) ELSE i

\* \b(PRL[PE])\s*(\d+)\b matches with its first group at token i
MatchesAt(s, i) ==
    /\ s[i] \in {"PRLP", "PRLE"}
    /\ i = 1 \/ ~IsWordTok(s[i - 1])
    /\ LET j == SkipSpaces(s, i + 1)
           k == SkipDigits(s, j)
       IN  /\ k > j
           /\ k > Len(s) \/ ~IsWordTok(s[k])

\* re.search(r"\b(PRL[PE])\s*(\d+)\b", s): the leftmost match, or no match
ReSearch(s) ==
    IF \E i \in 1..Len(s) : MatchesAt(s, i)
    THEN LET i == CHOOSE n \in 1..Len(s) :
                     MatchesAt(s, n) /\ \A m \in 1..(n - 1) : ~MatchesAt(s, m)
             j == SkipSpaces(s, i + 1)
             k == SkipDigits(s, j)
         IN  [found |-> TRUE, tipo |-> s[i], digits |-> SubSeq(s, j, k - 1)]
    ELSE [found |-> FALSE, tipo |-> "", digits |-> <<>>]

\* lines 357-368: the row yields a candidate
ParecerKept(ix, tds) ==
    /\ Len(tds) >= MaxIdx(ix) + 1
    /\ ReSearch(normtxt(GetText(tds[ix.psv + 1]))).found

\* lines 378-380
DescricaoLimpa(td) ==
    LET descricao_raw == OrElse(normtxt(GetText(td)), Sentinel)
    IN  OrElse(Strip(Remove(descricao_raw, "Inteiro teor")), Sentinel)

\* lines 360-393: the candidate of a row
CandidatoOf(ix, tds) ==
    LET m == ReSearch(normtxt(GetText(tds[ix.psv + 1])))
        numero == ToInt(m.digits)
    IN  [tipo |-> m.tipo,
         numero |-> numero,
         tipo_proposicao |-> <<m.tipo, Space>> \o ToStr(numero),
         data_apresentacao |-> OrElse(normtxt(GetText(tds[ix.data + 1])), ND),
         autor |-> OrElse(normtxt(GetText(tds[ix.aut + 1])), ND),
         descricao |-> DescricaoLimpa(tds[ix.desc + 1])]

\* lines 333-393 for one table
TableCandidatos(tabela) ==
    IF ~TableResolved(tabela.ths) \/ tabela.trs = <<>> THEN <<>>
    ELSE LET ix == ColumnIdx(tabela.ths)
             kept == SelectSeq(Tail(tabela.trs), LAMBDA tds : ParecerKept(ix, tds))
         IN  [i \in 1..Len(kept) |-> CandidatoOf(ix, kept[i])]

\* lines 331-393: candidatos
RECURSIVE Candidatos(_)
Candidatos(doc) ==
    IF doc = <<>> THEN <<>>
    ELSE TableCandidatos(Head(doc)) \o Candidatos(Tail(doc))

\* min(cs, key=numero), in place of max
MinByNumero(cs) ==
    cs[CHOOSE i \in 1..Len(cs) :
          /\ \A j \in 1..Len(cs) : cs[i].numero <= cs[j].numero
          /\ \A j \in 1..(i - 1) : cs[j].numero > cs[i].numero]

\* max(cs, key=lambda x: x["numero"]): the first of the largest
MaxByNumero(cs) ==
    cs[CHOOSE i \in 1..Len(cs) :
          /\ \A j \in 1..Len(cs) : cs[i].numero >= cs[j].numero
          /\ \A j \in 1..(i - 1) : cs[j].numero < cs[i].numero]

\* lines 403-412: selecionados
Selecionados(candidatos) ==
    LET prlp == SelectSeq(candidatos, LAMBDA c : c.tipo = "PRLP")
        prle == SelectSeq(candidatos, LAMBDA c : c.tipo = "PRLE")
    IN  (IF prlp # <<>> THEN <<MaxByNumero(prlp)>> ELSE <<>>)
        \o (IF prle # <<>> THEN <<MaxByNumero(prle)>> ELSE <<>>)

\* ParecerSubstitutivoVoto(...), lines 159-164 and 415-424
ParecerOf(sel) ==
    [tipo_proposicao |-> sel.tipo_proposicao,
     data_apresentacao |-> sel.data_apresentacao,
     autor |-> sel.autor,
     descricao |-> OrElse(sel.descricao, Sentinel)]

ExtractPareceres(doc) ==
    LET sel == Selecionados(Candidatos(doc))
    IN  [i \in 1..Len(sel) |-> ParecerOf(sel[i])]

-----------------------------------------------------------------------------
(* The cache-checked lookups over HTML pages.

   `up` is what the upstream source answers to SESSION.get: [st |-> "ok",
   doc |-> the page], [st |-> "http"] (a status other than 200) or
   [st |-> "raise"] (the request raised).  A lookup on cache c at time t gives
   [ret, cache, reqs]: the envelope returned, the cache left, and the number of
   upstream requests issued.  An error text f"...: {e}" is [msg, e]. *)

Erro(msg, e) == [msg |-> msg, e |-> e]
Msg(msg) == [msg |-> msg]

Hit(g) == [ret |-> g.ret, cache |-> g.cache, reqs |-> 0]

\* the envelope res of a miss, stored under ck and returned
Stored(c, ck, res, t) == [ret |-> res, cache |-> _cache_set(c, ck, res, t), reqs |-> 1]

\* obter_destaques_emendas(id_proposicao), lines 270-306
obter_destaques_emendas(c, id, up, t) ==
    LET ck == <<"destaques", id>>
        g == _cache_get(c, ck, t)
        destaques == ExtractDestaques(up.doc)
    IN  IF g.ret # None THEN Hit(g)
        ELSE IF up.st = "ok"
        THEN Stored(g.cache, ck,
                    [tem_destaques_emendas |-> Len(destaques) > 0,
                     destaques_emendas |-> destaques,
                     erro |-> IF destaques # <<>> THEN None
                              ELSE Msg("Nenhum destaque/emenda em tramitação")], t)
        ELSE Stored(g.cache, ck,
                    [tem_destaques_emendas |-> FALSE,
                     destaques_emendas |-> <<>>,
                     erro |-> Erro("Erro no scraping", up.st)], t)

\* obter_pareceres_substitutivos_votos(id_proposicao), lines 308-433
obter_pareceres_substitutivos_votos(c, id, up, t) ==
    LET ck == <<"pareceres", id>>
        g == _cache_get(c, ck, t)
        items == ExtractPareceres(up.doc)
    IN  IF g.ret # None THEN Hit(g)
        ELSE IF up.st = "ok"
        THEN IF Candidatos(up.doc) = <<>>
             THEN Stored(g.cache, ck,
                         [tem_pareceres |-> FALSE,
                          pareceres_substitutivos_votos |-> <<>>,
                          erro |-> Msg("Nenhum PRLP/PRLE encontrado")], t)
             ELSE Stored(g.cache, ck,
                         [tem_pareceres |-> Len(items) > 0,
                          pareceres_substitutivos_votos |-> items,
                          erro |-> None], t)
        ELSE Stored(g.cache, ck,
                    [tem_pareceres |-> FALSE,
                     pareceres_substitutivos_votos |-> <<>>,
                     erro |-> Erro("Erro no scraping", up.st)], t)

\* obter_procedimentos_regimentais(id_proposicao), lines 437-479
obter_procedimentos_regimentais(c, id, up, t) ==
    LET ck == <<"proced", id>>
        g == _cache_get(c, ck, t)
        procs == ExtractProcedimentos(up.doc)
    IN  IF g.ret # None THEN Hit(g)
        ELSE IF up.st = "ok"
        THEN Stored(g.cache, ck,
                    [tem_procedimentos |-> Len(procs) > 0,
                     procedimentos |-> procs,
                     erro |-> IF procs # <<>> THEN None
                              ELSE Msg("Nenhum requerimento procedimental em tramitação")], t)
        ELSE Stored(g.cache, ck,
                    [tem_procedimentos |-> FALSE,
                     procedimentos |-> <<>>,
                     erro |-> Erro("Erro no scraping", up.st)], t)

-----------------------------------------------------------------------------
(* Specification SpecExtract: each of the three page lookups, once, on an
   empty cache, for every page drawn from the sets below. *)

\* data rows of a page, over all its tables
MaxRows == 3

\* <td> cells
TdEmpty == <<>>
TdSpace == << <<Space>> >>
Td(tok) == << <<tok>> >>
TdPadded(tok) == << <<Space, tok, Space>> >>
TdEmMais == << <<"Em tramitação", Space, "x">> >>

\* rows of the highlights page: numero, autoria, descricao, tipo, situacao
DestaqueRows ==
    { <<Td("num"), Td("aut"), Td("desc"), Td("tipo"), Td("Em tramitação")>>,
      <<Td("num"), Td("aut"), TdEmpty, Td("tipo"), TdPadded("Em tramitação")>>,
      <<Td("num"), Td("aut"), TdSpace, Td("tipo"), Td("Em tramitação")>>,
      <<Td("num"), Td("aut"), Td("desc"), Td("Em tramitação"), Td("Arquivada")>>,
      <<Td("num"), Td("aut"), Td("desc"), Td("tipo"), TdEmMais>>,
      <<Td("num"), Td("aut"), Td("desc"), Td("Em tramitação")>>,
      <<Td("num"), Td("aut"), Td("desc"), Td("tipo"), Td("Em tramitação"), Td("x")>>,
      <<Td("num"), Td("aut"), Td("desc"), Td("tipo"), TdEmpty>> }

\* rows of the procedures page: numero, autoria, descricao, situacao, data
ProcedimentoRows ==
    { <<Td("num"), Td("aut"), Td("desc"), Td("Em tramitação"), Td("01/03/2024")>>,
      <<Td("num"), Td("aut"), TdEmpty, TdPadded("Em tramitação"), Td("1/3/2024")>>,
      <<Td("num"), Td("aut"), TdSpace, Td("Em tramitação"), TdEmpty>>,
      <<Td("num"), Td("aut"), Td("desc"), Td("Arquivada"), Td("Em tramitação")>>,
      <<Td("num"), Td("aut"), Td("desc"), TdEmMais, Td("01/03/2024")>>,
      <<Td("num"), Td("aut"), Td("desc"), Td("Em tramitação")>>,
      <<Td("num"), Td("aut"), Td("desc"), Td("Em tramitação"), Td("x")>>,
      <<Td("num"), Td("aut"), Td("desc"), Td("Em tramitação"), Td("01/03/2024"), Td("x")>> }

\* cells of the opinions page
TdPRLP3 == << <<"PRLP", Space, "3">> >>
TdPRLP12 == << <<Space, "PRLP", "1", "2">> >>
TdPRLE2 == << <<"PRLE", "2">> >>
TdPRLE7 == << <<"PRLE", Space, Space, "0", "7">>, <<"x">> >>
TdNoBoundary == << <<"x", "PRLP", "3">> >>
TdInteiroTeor == << <<"Inteiro teor">> >>
TdDescEInteiro == << <<"desc">>, <<Space, "Inteiro teor">> >>

\* rows of the opinions page: pareceres, tipo, data, autor, descricao
ParecerRows ==
    { <<TdPRLP3, Td("tipo"), Td("d1"), Td("aut"), TdDescEInteiro>>,
      <<TdPRLP12, Td("tipo"), Td("d2"), TdEmpty, TdEmpty>>,
      <<TdPRLP3, Td("tipo"), TdEmpty, Td("aut"), Td("outra")>>,
      <<TdPRLE2, Td("tipo"), Td("d3"), Td("aut"), TdInteiroTeor>>,
      <<TdPRLE7, Td("tipo"), Td("d4"), Td("aut"), Td("desc")>>,
      <<TdNoBoundary, Td("tipo"), Td("d5"), Td("aut"), Td("desc")>>,
      <<TdPRLP12, Td("tipo"), Td("d6"), Td("aut")>>,
      <<Td("desc"), Td("aut"), Td("d7"), Td("tipo"), TdPRLP12>> }

\* the <th> cells of a table of the opinions page
HStd == <<{"pareceres"}, {"tipo de propos"}, {"data de apres"}, {"autor"}, {"descri"}>>
HReversed == <<{"descri"}, {"autor"}, {"data de apres"}, {"tipo de propos"}, {"pareceres"}>>
HUnknown5 == <<{}, {}, {}, {}, {}>>
HUnknown4 == <<{}, {}, {}, {}>>
HPartial == <<{"pareceres"}, {}, {"data de apres"}, {"autor", "descri"}, {"descri"}>>
HPartialReversed == <<{"descri"}, {}, {"data de apres"}, {"autor"}, {"pareceres"}>>
Headers == {HStd, HReversed, HUnknown5, HUnknown4, HPartial, HPartialReversed, <<>>}

RowSeqs(rows) == UNION {[1..n -> rows] : n \in 0..MaxRows}

\* a table with a header row and the data rows rs
Table(ths, rs) == [ths |-> ths, trs |-> <<<<>>>> \o rs]
\* a table whose first <tr> is already a data row
Headless(rs) == [ths |-> <<>>, trs |-> rs]

\* the pages with the data rows rs: in one table, or split over two
Pages(rs, H) ==
    {<<Table(h, rs)>> : h \in H}
    \cup {<<Table(h, SubSeq(rs, 1, k)), Table(HStd, SubSeq(rs, k + 1, Len(rs)))>> :
            h \in H, k \in 0..Len(rs)}

\* what the source may answer when the page's data rows are rs
Responses(rs, H) ==
    {[st |-> "ok", doc |-> d] : d \in Pages(rs, H)}
    \cup {[st |-> "ok", doc |-> <<Headless(rs)>>], [st |-> "ok", doc |-> <<>>],
          [st |-> "http", doc |-> <<>>], [st |-> "raise", doc |-> <<>>]}

ExtractKinds == {"destaques", "proced", "pareceres"}

RowsOf(kind) == CASE kind = "destaques" -> DestaqueRows
                  [] kind = "proced" -> ProcedimentoRows
                  [] kind = "pareceres" -> ParecerRows

HeadersOf(kind) == IF kind = "pareceres" THEN Headers ELSE {HStd}

InitExtract ==
    /\ cache = <<>>
    /\ now = 0
    /\ last = NoLast
    /\ hist = NoHist
    /\ thr = Idle
    /\ \E kind \in ExtractKinds :
          \E rs \in RowSeqs(RowsOf(kind)) :
             \E u \in Responses(rs, HeadersOf(kind)) :
                inp = [kind |-> kind, up |-> u]
    /\ outp = [done |-> FALSE]

Returns(r) ==
    /\ cache' = r.cache
    /\ outp' = [done |-> TRUE, ret |-> r.ret, reqs |-> r.reqs]
    /\ UNCHANGED <<now, last, hist, thr, inp>>

ObterDestaques ==
    /\ ~outp.done /\ inp.kind = "destaques"
    /\ Returns(obter_destaques_emendas(cache, "p1", inp.up, now))

ObterPareceres ==
    /\ ~outp.done /\ inp.kind = "pareceres"
    /\ Returns(obter_pareceres_substitutivos_votos(cache, "p1", inp.up, now))

ObterProcedimentos ==
    /\ ~outp.done /\ inp.kind = "proced"
    /\ Returns(obter_procedimentos_regimentais(cache, "p1", inp.up, now))

NextExtract == ObterDestaques \/ ObterPareceres \/ ObterProcedimentos

SpecExtract == InitExtract /\ [][NextExtract]_vars

\* The row-derived entities of the envelope returned.
Emitted ==
    CASE inp.kind = "destaques" -> outp.ret.destaques_emendas
      [] inp.kind = "proced" -> outp.ret.procedimentos
      [] inp.kind = "pareceres" -> outp.ret.pareceres_substitutivos_votos

\* The opinions lookup has returned on a page the source served.
PareceresDone == outp.done /\ inp.kind = "pareceres" /\ inp.up.st = "ok"

HasTipo(cs, tipo) == \E i \in 1..Len(cs) : cs[i].tipo = tipo

\* Entry e is a candidate of category tipo whose number no candidate of the
\* category exceeds.
IsLargestOf(cs, tipo, e) ==
    \E i \in 1..Len(cs) :
        /\ cs[i].tipo = tipo
        /\ \A j \in 1..Len(cs) : cs[j].tipo = tipo => cs[j].numero <= cs[i].numero
        /\ e.tipo_proposicao = <<tipo, Space>> \o ToStr(cs[i].numero)
        /\ e.data_apresentacao = cs[i].data_apresentacao
        /\ e.autor = cs[i].autor
        /\ e.descricao = cs[i].descricao

(* C7: the opinions returned hold at most one entry per category (PRLP,
   PRLE); a category has an entry iff it has a candidate, the entry is the
   candidate with the numerically largest sequence number of the category, and
   the PRLP entry precedes the PRLE entry. *)
C7_OpinionSelection ==
    PareceresDone =>
        LET cs == Candidatos(inp.up.doc)
            ps == Emitted
            nP == IF HasTipo(cs, "PRLP") THEN 1 ELSE 0
            nE == IF HasTipo(cs, "PRLE") THEN 1 ELSE 0
        IN  /\ Len(ps) = nP + nE
            /\ nP = 1 => IsLargestOf(cs, "PRLP", ps[1])
            /\ nE = 1 => IsLargestOf(cs, "PRLE", ps[Len(ps)])

\* Candidates PRLP 3, PRLP 12, PRLE 2, in that order, give [PRLP 12, PRLE 2].
C7_Witness ==
    /\ PareceresDone
    /\ LET cs == Candidatos(inp.up.doc)
       IN  /\ Len(cs) = 3
           /\ cs[1].tipo = "PRLP" /\ cs[1].numero = 3
           /\ cs[2].tipo = "PRLP" /\ cs[2].numero = 12
           /\ cs[3].tipo = "PRLE" /\ cs[3].numero = 2
    /\ Len(Emitted) = 2
    /\ Emitted[1].tipo_proposicao = <<"PRLP", Space, "1", "2">>
    /\ Emitted[2].tipo_proposicao = <<"PRLE", Space, "2">>

(* C10: every row-derived entity the extractors emit (DestaqueEmenda,
   ParecerSubstitutivoVoto, Procedimento) has a non-empty descricao. *)
C10_DescricaoNeverEmpty ==
    outp.done => \A i \in 1..Len(Emitted) : Emitted[i].descricao # <<>>

\* some expected column of the table is not recognized by keyword
Unrecognized(tabela) == tabela.ths # <<>> /\ MinIdx(KeywordIdx(tabela.ths)) < 0

\* the table has the expected number of columns
FiveColumns(tabela) == Len(tabela.ths) >= 5

\* the table can be resolved neither by keyword nor by position
Unresolvable(tabela) ==
    tabela.ths = <<>> \/ (Unrecognized(tabela) /\ ~FiveColumns(tabela))

\* the same data rows under correctly worded headers in positions 0..4
Reworded(tabela) == [ths |-> HStd, trs |-> tabela.trs]

\* the page with every resolvable table that is not recognized by keyword
\* reworded, and without the tables that cannot be resolved
RewordedDoc(doc) ==
    LET kept == SelectSeq(doc, LAMBDA tabela : ~Unresolvable(tabela))
    IN  [i \in 1..Len(kept) |->
            IF Unrecognized(kept[i]) THEN Reworded(kept[i]) ELSE kept[i]]

\* C13: a table of the opinions page not recognized by keyword but with at
\* least 5 columns yields the candidates of the same rows under correctly
\* worded headers, and a table resolved neither way yields none: the lookup
\* returns what it returns on the reworded page.
C13_PositionalFallback ==
    PareceresDone =>
        /\ Candidatos(inp.up.doc) = Candidatos(RewordedDoc(inp.up.doc))
        /\ outp.ret = obter_pareceres_substitutivos_votos(
                          <<>>, "p1", [st |-> "ok", doc |-> RewordedDoc(inp.up.doc)], 0).ret

\* A table whose headers name four columns, in reverse order, and leave one
\* unnamed is read by position and gives opinions.
C13_Witness ==
    /\ PareceresDone
    /\ Len(inp.up.doc) = 1
    /\ inp.up.doc[1].ths = HPartialReversed
    /\ Len(inp.up.doc[1].trs) > 2
    /\ Len(outp.ret.pareceres_substitutivos_votos) = 2

\* The highlights or the procedures lookup has returned on a page the source
\* served.
StatusDone == outp.done /\ inp.kind \in {"destaques", "proced"} /\ inp.up.st = "ok"

\* index of the status cell: 4 for highlights, 3 for procedures
StatusIdx == IF inp.kind = "destaques" THEN 4 ELSE 3

\* the row has at least 5 cells and its trimmed status is "Em tramitação"
InProgress(cols) ==
    Len(cols) >= 5 /\ Strip(Text(cols[StatusIdx + 1])) = EmTramitacao

\* the data rows in progress, in table order then row order
RowsInProgress == SelectSeq(DataRows(inp.up.doc), InProgress)

RecordOf(cols) ==
    IF inp.kind = "destaques" THEN DestaqueOf(cols) ELSE ProcedimentoOf(cols)

\* C14: the highlights and procedures extractors emit a record for a data
\* row iff the row has at least 5 cells and its status cell (index 4 for
\* highlights, 3 for procedures), trimmed, equals "Em tramitação", and the
\* records are in table order then row order.
C14_StatusFilter ==
    StatusDone =>
        /\ Len(Emitted) = Len(RowsInProgress)
        /\ \A i \in 1..Len(Emitted) :
              /\ Emitted[i] = RecordOf(RowsInProgress[i])
              /\ Emitted[i].situacao = EmTramitacao

\* A procedures page of two tables and three data rows: the row whose status
\* is "Arquivada" and whose date cell reads "Em tramitação" is left out, the
\* two rows in progress are emitted in page order.
C14_Witness ==
    /\ StatusDone /\ inp.kind = "proced"
    /\ Len(inp.up.doc) = 2
    /\ Len(DataRows(inp.up.doc)) = 3
    /\ \E i \in 1..3 :
          LET cols == DataRows(inp.up.doc)[i]
          IN  Text(cols[4]) = <<"Arquivada">> /\ Text(cols[5]) = EmTramitacao
    /\ Len(Emitted) = 2
    /\ Emitted[1].descricao = <<>> /\ Emitted[2].descricao = <<"desc">>

-----------------------------------------------------------------------------
(* The cache-checked lookups over the data API.

   Here `up` is [st |-> "ok", dados |-> the "dados" of the payload, as parsed
   from JSON or rebuilt from XML], [st |-> "http"] (raise_for_status raised),
   [st |-> "raise"] (the request raised) or [st |-> "parse"] (the body is
   neither JSON nor XML).  A status text is a str. *)

\* "Sessão Deliberativa" in descricaoTipo, for the type descriptions modelled
Deliberativas == {"Sessão Deliberativa", "Sessão Deliberativa Extraordinária"}

\* line 212
IsDeliberativa(e) ==
    "descricaoTipo" \in DOMAIN e /\ e["descricaoTipo"] \in Deliberativas

\* An id as Python holds it: an int (from JSON) or a str (from XML or from the
\* query string), with its decimal text v.  == tells the two types apart;
\* f"{id}" does not.
IntId(v) == [ty |-> "int", v |-> v]
StrId(v) == [ty |-> "str", v |-> v]
Fmt(id) == id.v

\* Evento(...), lines 204-210
EventoOf(e) ==
    [id_evento |-> _get(e, "id", StrId("")),
     situacao |-> _get(e, "situacao", "Não Informada"),
     descricao_tipo |-> _get(e, "descricaoTipo", "")]

\* obter_eventos_dia(data_str), lines 177-224
obter_eventos_dia(c, data_str, up, t) ==
    LET ck == <<"eventos", data_str>>
        g == _cache_get(c, ck, t)
        delib == SelectSeq(up.dados, IsDeliberativa)
        eventos_delib == [i \in 1..Len(delib) |-> EventoOf(delib[i])]
    IN  IF g.ret # None THEN Hit(g)
        ELSE IF up.st = "ok"
        THEN Stored(g.cache, ck,
                    [tem_sessao |-> Len(eventos_delib) > 0,
                     eventos |-> eventos_delib,
                     erro |-> IF eventos_delib # <<>> THEN None
                              ELSE Erro("Nenhuma sessão deliberativa em", data_str)], t)
        ELSE Stored(g.cache, ck,
                    [tem_sessao |-> FALSE, eventos |-> <<>>,
                     erro |-> Erro("Erro na API", up.st)], t)

\* obter_detalhes_proposicao(id_proposicao), lines 226-244: the failure
\* payload is returned without being stored
obter_detalhes_proposicao(c, id, up, t) ==
    LET ck == <<"prop", id>>
        g == _cache_get(c, ck, t)
    IN  IF g.ret # None THEN Hit(g)
        ELSE IF up.st = "ok"
        THEN Stored(g.cache, ck,
                    [descricao_situacao |->
                        _get2(up.dados, "statusProposicao", "descricaoSituacao",
                              <<"Não Informada">>)], t)
        ELSE [ret |-> [descricao_situacao |-> <<"Erro:", up.st>>],
              cache |-> g.cache, reqs |-> 1]

\* line 261: a.get("nome") or (a.get("autor") or {}).get("nome") or "Desconhecido"
NomeOf(a) ==
    IF _get(a, "nome", "") # "" THEN a["nome"]
    ELSE IF _get2(a, "autor", "nome", "") # "" THEN a["autor"]["nome"]
    ELSE "Desconhecido"

\* obter_autores_proposicao(id_proposicao), lines 246-268
obter_autores_proposicao(c, id, up, t) ==
    LET ck == <<"autores", id>>
        g == _cache_get(c, ck, t)
        primeiros == SubSeq(up.dados, 1, Min2(2, Len(up.dados)))
    IN  IF g.ret # None THEN Hit(g)
        ELSE IF up.st = "ok"
        THEN Stored(g.cache, ck,
                    [autores |-> [i \in 1..Len(primeiros) |-> [nome |-> NomeOf(primeiros[i])]],
                     tem_mais_autores |-> Len(up.dados) > 2], t)
        ELSE Stored(g.cache, ck, [autores |-> <<>>, tem_ais_autores |-> FALSE], t)

\* lines 508-523: the agenda item of a raw entry
ItemOf(item, principal, det, autores) ==
    [ordem |-> _get(item, "ordem", "N/D"),
     titulo |-> _get(item, "titulo", ""),
     id_proposicao |-> principal.id,
     ementa |-> principal.ementa,
     relator_nome |-> _get2(item, "relator", "nome", ""),
     descricao_situacao |-> det.descricao_situacao,
     autores |-> autores]

\* lines 500-523: one turn of the loop over dados_pauta; acc is
\* [cache, seen, itens, reqs]
PautaStep(item, acc, up, t) ==
    LET principal == _principal_from_item(item)
        det == obter_detalhes_proposicao(acc.cache, principal.id,
                                         up.prop[principal.id], t)
        aut == obter_autores_proposicao(det.cache, principal.id,
                                        up.autores[principal.id], t)
    IN  IF principal.id = "" \/ principal.id \in acc.seen
        THEN acc
        ELSE [cache |-> aut.cache,
              seen |-> acc.seen \cup {principal.id},
              itens |-> Append(acc.itens, ItemOf(item, principal, det.ret, aut.ret)),
              reqs |-> acc.reqs + det.reqs + aut.reqs]

\* lines 497-523: the loop over dados_pauta (a is acc after the first entry;
\* a value bound over a singleton set is computed once, as a Python local is)
RECURSIVE PautaLoop(_, _, _, _)
PautaLoop(dados_pauta, acc, up, t) ==
    IF dados_pauta = <<>> THEN acc
    ELSE CHOOSE r \in {PautaLoop(Tail(dados_pauta), a, up, t) :
                          a \in {PautaStep(Head(dados_pauta), acc, up, t)}} : TRUE

\* obter_pauta_por_evento(evento_id), lines 481-532; up.prop and up.autores
\* are what the source answers for each proposition id
obter_pauta_por_evento(c, evento_id, up, t) ==
    LET ck == <<"pauta", Fmt(evento_id)>>
        g == _cache_get(c, ck, t)
        Res(itens) == [tem_pauta |-> Len(itens) > 0,
                       itens |-> itens,
                       erro |-> IF itens # <<>> THEN None
                                ELSE Erro("Sem itens para evento", Fmt(evento_id))]
    IN  IF g.ret # None THEN Hit(g)
        ELSE IF up.st = "ok"
        THEN CHOOSE r \in
                 {[ret |-> Res(loop.itens),
                   cache |-> _cache_set(loop.cache, ck, Res(loop.itens), t),
                   reqs |-> loop.reqs] :
                  loop \in {PautaLoop(up.dados,
                                      [cache |-> g.cache, seen |-> {},
                                       itens |-> <<>>, reqs |-> 1],
                                      up, t)}} : TRUE
        ELSE Stored(g.cache, ck,
                    [tem_pauta |-> FALSE, itens |-> <<>>,
                     erro |-> Erro("Erro na API", up.st)], t)

-----------------------------------------------------------------------------
(* Specification SpecLookup: the seven cache-checked lookups, called in any
   order on the shared cache while the clock advances, the source answering
   each request with any of the responses below. *)

Failed(st) == [st |-> st, dados |-> <<>>, doc |-> <<>>]
Ok(dados) == [st |-> "ok", dados |-> dados]
OkPage(doc) == [st |-> "ok", doc |-> doc]

UpEventos ==
    {Ok(<<[id |-> IntId("1"), descricaoTipo |-> "Sessão Deliberativa"]>>),
     Ok(<<[id |-> IntId("1"), descricaoTipo |-> "Sessão Solene"]>>),
     Failed("http"), Failed("parse")}

UpProp ==
    {Ok([statusProposicao |-> [descricaoSituacao |-> <<"Pronta para Pauta">>]]),
     Ok(EmptyDict), Failed("http"), Failed("raise")}

UpAutores ==
    {Ok(<<[nome |-> "A"], [autor |-> [nome |-> "B"]], EmptyDict>>),
     Ok(<<>>), Failed("http")}

PropOf(id) == [id |-> id, ementa |-> "e1", siglaTipo |-> "PL"]

UpPauta ==
    {[st |-> "ok", dados |-> d, prop |-> [i \in {"p1"} |-> pu], autores |-> [i \in {"p1"} |-> au]] :
        d \in {<<[ordem |-> "1", proposicao_ |-> PropOf("p1")]>>, <<>>},
        pu \in {Ok(EmptyDict), Failed("http")},
        au \in {Ok(<<>>), Failed("http")}}
    \cup {[st |-> "http", dados |-> <<>>, prop |-> <<>>, autores |-> <<>>]}

UpDestaques ==
    {OkPage(<<Table(HStd, << <<Td("num"), Td("aut"), TdEmpty, Td("tipo"),
                               Td("Em tramitação")>> >>)>>),
     OkPage(<<>>), Failed("http")}

UpPareceres ==
    {OkPage(<<Table(HStd, << <<TdPRLP3, Td("tipo"), Td("d1"), Td("aut"), TdEmpty>> >>)>>),
     OkPage(<<>>), Failed("raise")}

UpProcedimentos ==
    {OkPage(<<Table(HStd, << <<Td("num"), Td("aut"), Td("desc"), Td("Em tramitação"),
                               Td("1/3/2024")>> >>)>>),
     OkPage(<<>>), Failed("http")}

\* Lookups made in one behaviour of SpecLookup.
MaxLookups == 3

InitLookup ==
    /\ cache = <<>>
    /\ now = 0
    /\ last = [op |-> "none", key |-> "", ret |-> None, reqs |-> 0, at |-> 0,
               st |-> "none", n |-> 0]
    /\ hist = NoHist
    /\ thr = Idle
    /\ inp = Idle
    /\ outp = Idle

\* What is seen of lookup op(key) that answered r, the source having
\* answered st to its request: the call, the envelope, the requests issued.
Observed(op, key, st, r) ==
    [op |-> op, key |-> key, ret |-> r.ret, reqs |-> r.reqs, at |-> now,
     st |-> IF r.reqs = 0 THEN "hit" ELSE st, n |-> last.n + 1]

LookupEventos ==
    /\ last.n < MaxLookups
    /\ \E up \in UpEventos :
          LET r == obter_eventos_dia(cache, "d1", up, now)
          IN  cache' = r.cache /\ last' = Observed("eventos", "d1", up.st, r)
    /\ UNCHANGED <<now, hist, thr, inp, outp>>

LookupDetalhes ==
    /\ last.n < MaxLookups
    /\ \E up \in UpProp :
          LET r == obter_detalhes_proposicao(cache, "p1", up, now)
          IN  cache' = r.cache /\ last' = Observed("prop", "p1", up.st, r)
    /\ UNCHANGED <<now, hist, thr, inp, outp>>

LookupAutores ==
    /\ last.n < MaxLookups
    /\ \E up \in UpAutores :
          LET r == obter_autores_proposicao(cache, "p1", up, now)
          IN  cache' = r.cache /\ last' = Observed("autores", "p1", up.st, r)
    /\ UNCHANGED <<now, hist, thr, inp, outp>>

LookupPauta ==
    /\ last.n < MaxLookups
    /\ \E up \in UpPauta :
          LET r == obter_pauta_por_evento(cache, IntId("1"), up, now)
          IN  cache' = r.cache /\ last' = Observed("pauta", "1", up.st, r)
    /\ UNCHANGED <<now, hist, thr, inp, outp>>

LookupDestaques ==
    /\ last.n < MaxLookups
    /\ \E up \in UpDestaques :
          LET r == obter_destaques_emendas(cache, "p1", up, now)
          IN  cache' = r.cache /\ last' = Observed("destaques", "p1", up.st, r)
    /\ UNCHANGED <<now, hist, thr, inp, outp>>

LookupPareceres ==
    /\ last.n < MaxLookups
    /\ \E up \in UpPareceres :
          LET r == obter_pareceres_substitutivos_votos(cache, "p1", up, now)
          IN  cache' = r.cache /\ last' = Observed("pareceres", "p1", up.st, r)
    /\ UNCHANGED <<now, hist, thr, inp, outp>>

LookupProcedimentos ==
    /\ last.n < MaxLookups
    /\ \E up \in UpProcedimentos :
          LET r == obter_procedimentos_regimentais(cache, "p1", up, now)
          IN  cache' = r.cache /\ last' = Observed("proced", "p1", up.st, r)
    /\ UNCHANGED <<now, hist, thr, inp, outp>>

NextLookup ==
    \/ LookupEventos
    \/ LookupDetalhes
    \/ LookupAutores
    \/ LookupPauta
    \/ LookupDestaques
    \/ LookupPareceres
    \/ LookupProcedimentos
    \/ Tick

SpecLookup == InitLookup /\ [][NextLookup]_vars


\* The previous step's lookup fetched from the source and this step repeats
\* it within the TTL, no other call having touched the cache in between.
RepeatWithinTTL ==
    /\ last.op # "none"
    /\ last.reqs > 0
    /\ last'.n = last.n + 1
    /\ last'.op = last.op
    /\ last'.key = last.key
    /\ last'.at - last.at <= _TTL_SECONDS

\* C3: a lookup that completed at T by asking the source, whether it
\* succeeded or failed, has stored its result, so its repeat at T' with
\* T' - T <= TTL returns the identical result and issues no request.
C3_RepeatIsHit ==
    [][RepeatWithinTTL => last'.ret = last.ret /\ last'.reqs = 0]_vars

\* the fields of the envelope each lookup builds when it succeeds
SuccessFields(op) ==
    CASE op = "eventos" -> {"tem_sessao", "eventos", "erro"}
      [] op = "pauta" -> {"tem_pauta", "itens", "erro"}
      [] op = "prop" -> {"descricao_situacao"}
      [] op = "autores" -> {"autores", "tem_mais_autores"}
      [] op = "destaques" -> {"tem_destaques_emendas", "destaques_emendas", "erro"}
      [] op = "pareceres" -> {"tem_pareceres", "pareceres_substitutivos_votos", "erro"}
      [] op = "proced" -> {"tem_procedimentos", "procedimentos", "erro"}

\* the source failed the request of the last lookup
LastFailed == last.st \in {"http", "raise", "parse"}

\* C8: every lookup returns an envelope with an error field, populated
\* when the lookup failed, and a lookup returns the same set of fields
\* when it fails as when it succeeds.
C8_UniformEnvelope ==
    last.op # "none" =>
        /\ "erro" \in DOMAIN last.ret
        /\ LastFailed => last.ret.erro # None
        /\ DOMAIN last.ret = SuccessFields(last.op)

-----------------------------------------------------------------------------
(* The merged agenda of a day, api_pauta (lines 562-586).

   evento_id is request.args.get("evento_id"): None or a str.  Here `up` is
   [eventos, pauta, prop, autores]: what the source answers for the day's
   events, for the agenda of each event id, and for each proposition id. *)

\* `not evento_id`, line 576
Falsy(evento_id) == evento_id = None \/ Fmt(evento_id) = ""

\* line 576: ev["id_evento"] == evento_id compares an int or a str with a str
IsAlvo(ev, evento_id) == Falsy(evento_id) \/ ev.id_evento = evento_id

\* line 576: the events of the list that are targeted
RECURSIVE Alvo(_, _)
Alvo(eventos, evento_id) ==
    IF eventos = <<>> THEN <<>>
    ELSE IF IsAlvo(Head(eventos), evento_id)
    THEN <<Head(eventos)>> \o Alvo(Tail(eventos), evento_id)
    ELSE Alvo(Tail(eventos), evento_id)

\* what the source answers while the agenda of event id is being built
UpOfEvento(up, id) ==
    [st |-> up.pauta[Fmt(id)].st, dados |-> up.pauta[Fmt(id)].dados,
     prop |-> up.prop, autores |-> up.autores]

\* lines 578-579: one turn of the loop over alvo; acc is [cache, itens, reqs]
AlvoStep(ev, acc, up, t) ==
    CHOOSE r \in
        {[cache |-> pauta.cache,
          itens |-> acc.itens \o pauta.ret.itens,
          reqs |-> acc.reqs + pauta.reqs] :
         pauta \in {obter_pauta_por_evento(acc.cache, ev.id_evento,
                                           UpOfEvento(up, ev.id_evento), t)}} : TRUE

\* lines 577-579: the loop over alvo (a is acc after the first event)
RECURSIVE AlvoLoop(_, _, _, _)
AlvoLoop(alvo, acc, up, t) ==
    IF alvo = <<>> THEN acc
    ELSE CHOOSE r \in {AlvoLoop(Tail(alvo), a, up, t) :
                          a \in {AlvoStep(Head(alvo), acc, up, t)}} : TRUE

\* the response once the events of the day are known
PautaResponse(eventos_res, evento_id, up, t) ==
    LET eventos == eventos_res.ret.eventos
    IN  IF ~eventos_res.ret.tem_sessao
        THEN [ret |-> [tem_pauta |-> FALSE, itens |-> <<>>,
                       erro |-> eventos_res.ret.erro, eventos |-> <<>>],
              cache |-> eventos_res.cache, reqs |-> eventos_res.reqs]
        ELSE CHOOSE r \in
                 {[ret |-> [tem_pauta |-> Len(loop.itens) > 0,
                            itens |-> loop.itens,
                            eventos |-> eventos,
                            erro |-> IF loop.itens # <<>> THEN None
                                     ELSE Msg("Sem itens de pauta para o(s) evento(s) do dia.")],
                   cache |-> loop.cache, reqs |-> loop.reqs] :
                  loop \in {AlvoLoop(Alvo(eventos, evento_id),
                                     [cache |-> eventos_res.cache, itens |-> <<>>,
                                      reqs |-> eventos_res.reqs],
                                     up, t)}} : TRUE

\* api_pauta(data_str) with ?evento_id, lines 562-586
api_pauta(c, data_str, evento_id, up, t) ==
    CHOOSE r \in {PautaResponse(eventos_res, evento_id, up, t) :
                     eventos_res \in {obter_eventos_dia(c, data_str, up.eventos, t)}} : TRUE

-----------------------------------------------------------------------------
(* Specification SpecPauta: one request to /api/pauta/<data_str> on an empty
   cache, for every day drawn from the sets below. *)

\* events of a day and raw entries of one agenda
MaxEventos == 2
MaxItens == 2

SeqsUpTo(S, n) == UNION {[1..k -> S] : k \in 0..n}

\* the events of a day as the source lists them, their ids of type ty:
\* ints in JSON, strs in XML
DayEventos(ty) ==
    {[id |-> [ty |-> ty, v |-> "1"], descricaoTipo |-> "Sessão Deliberativa"],
     [id |-> [ty |-> ty, v |-> "2"], descricaoTipo |-> "Sessão Deliberativa Extraordinária"],
     [id |-> [ty |-> ty, v |-> "3"], descricaoTipo |-> "Sessão Solene"]}

\* lists of events, no event listed twice
DayLists ==
    {es \in UNION {SeqsUpTo(DayEventos(ty), MaxEventos) : ty \in {"int", "str"}} :
        \A i, j \in 1..Len(es) : i # j => es[i] # es[j]}

\* raw agenda entries: two ordinary propositions, a wrapper of the first, and
\* an entry without proposition
RawItens ==
    {[ordem |-> "1", proposicao_ |-> PropOf("p1")],
     [ordem |-> "2", proposicao_ |-> PropOf("p2")],
     [ordem |-> "3", proposicao_ |-> [id |-> "w1", ementa |-> "ew", siglaTipo |-> "PPP"],
      proposicaoRelacionada_ |-> [id |-> "p1", ementa |-> "er"]],
     [ordem |-> "4"]}

EventoIds == {"1", "2"}
ItemPropIds == {"p1", "p2", "w1"}

UpDayEventos == {Ok(es) : es \in DayLists} \cup {Failed("http")}
UpDayPauta == {Ok(d) : d \in SeqsUpTo(RawItens, MaxItens)} \cup {Failed("http")}

\* ?evento_id= absent, empty, or naming an event
QueryIds == {None, StrId(""), StrId("1"), StrId("2")}

InitPauta ==
    /\ cache = <<>>
    /\ now = 0
    /\ last = NoLast
    /\ hist = NoHist
    /\ thr = Idle
    /\ \E q \in QueryIds, ue \in UpDayEventos, u1 \in UpDayPauta, u2 \in UpDayPauta :
          inp = [evento_id |-> q,
                 up |-> [eventos |-> ue,
                         pauta |-> [i \in EventoIds |-> IF i = "1" THEN u1 ELSE u2],
                         prop |-> [i \in ItemPropIds |-> Ok(EmptyDict)],
                         autores |-> [i \in ItemPropIds |-> Ok(<<[nome |-> "A"]>>)]]]
    /\ outp = [done |-> FALSE]

ApiPauta ==
    /\ ~outp.done
    /\ \E r \in {api_pauta(cache, "d1", inp.evento_id, inp.up, now)} :
          /\ cache' = r.cache
          /\ outp' = [done |-> TRUE, res |-> r.ret, reqs |-> r.reqs]
    /\ UNCHANGED <<now, last, hist, thr, inp>>

NextPauta == ApiPauta

SpecPauta == InitPauta /\ [][NextPauta]_vars

\* the id_proposicao of each item of the merged response, in order
MergedIds ==
    [i \in 1..Len(outp.res.itens) |-> outp.res.itens[i].id_proposicao]

\* C4: in every merged agenda response, every item has a non-empty
\* id_proposicao and no id_proposicao appears in more than one item.
C4_AgendaIdentity ==
    outp.done =>
        /\ \A i \in 1..Len(MergedIds) : MergedIds[i] # ""
        /\ \A i, j \in 1..Len(MergedIds) : i # j => MergedIds[i] # MergedIds[j]

\* the deliberative sessions the source lists for the day, in its order
DaySessions ==
    IF inp.up.eventos.st = "ok"
    THEN SelectSeq(inp.up.eventos.dados, IsDeliberativa)
    ELSE <<>>

\* the request names the session: its evento_id is the session's id
Named(e) == Fmt(e.id) = Fmt(inp.evento_id)

\* the sessions the request targets: all of them without evento_id, those it
\* names otherwise
TargetSessions ==
    IF Falsy(inp.evento_id) THEN DaySessions ELSE SelectSeq(DaySessions, Named)

\* the agenda items of one session, looked up on its own
SessionItens(e) ==
    obter_pauta_por_evento(<<>>, e.id, UpOfEvento(inp.up, e.id), 0).ret.itens

\* the agendas of the sessions es, one after the other
RECURSIVE ConcatItens(_)
ConcatItens(es) ==
    IF es = <<>> THEN <<>>
    ELSE SessionItens(Head(es)) \o ConcatItens(Tail(es))

\* C12: with a deliberative session in the day, itens is the concatenation,
\* in session order, of the agenda items of the targeted sessions (all of them
\* without evento_id, those whose id is the given evento_id otherwise);
\* without one, the response is empty and only the events were requested.
C12_MergedDayAgenda ==
    outp.done =>
        IF DaySessions # <<>>
        THEN outp.res.itens = ConcatItens(TargetSessions)
        ELSE /\ outp.res.itens = <<>>
             /\ ~outp.res.tem_pauta
             /\ outp.res.erro # None
             /\ outp.reqs = 1

-----------------------------------------------------------------------------
(* Specification SpecEvict: sequential calls of _cache_set and _cache_get,
   with the order of insertions recorded apart from _CACHE.

   hist.stamp[k] numbers the insertion of key k's present entry (0: never
   inserted); an assignment to a key already present is not an insertion.
   hist.out is the stamp of the entry last removed for capacity. *)

\* _cache_set calls in one behaviour of SpecEvict
MaxSets == 5

\* next(iter(_CACHE)), line 86
OldestKey(c) == c[1].key

\* the key _cache_set pops at line 86, if any: <<key>> or <<>>
Popped(c) == IF OverLimit(c) THEN <<OldestKey(c)>> ELSE <<>>

InitEvict ==
    /\ cache = <<>>
    /\ now = 0
    /\ last = [op |-> "none", key |-> 0, ret |-> None, at |-> 0, popped |-> <<>>]
    /\ hist = [stamp |-> [k \in Keys |-> 0], n |-> 0, out |-> 0]
    /\ thr = Idle
    /\ inp = Idle
    /\ outp = Idle

\* the key is stored at line 87 as a new entry of the dict
Inserted(c, k) == k \notin CacheKeys(c) \/ Popped(c) = <<k>>

EvictSet(k, v) ==
    /\ hist.n < MaxSets
    /\ cache' = _cache_set(cache, k, v, now)
    /\ last' = [op |-> "set", key |-> k, ret |-> None, at |-> now,
                popped |-> Popped(cache)]
    /\ hist' = [stamp |-> IF Inserted(cache, k)
                          THEN [hist.stamp EXCEPT ![k] = hist.n + 1]
                          ELSE hist.stamp,
                n |-> hist.n + 1,
                out |-> IF OverLimit(cache) THEN hist.stamp[OldestKey(cache)]
                        ELSE hist.out]
    /\ UNCHANGED <<now, thr, inp, outp>>

EvictGet(k) ==
    /\ \E r \in {_cache_get(cache, k, now)} :
          /\ cache' = r.cache
          /\ last' = [op |-> "get", key |-> k, ret |-> r.ret, at |-> now,
                      popped |-> <<>>]
    /\ UNCHANGED <<now, hist, thr, inp, outp>>

NextEvict ==
    \/ \E k \in Keys, v \in Vals : EvictSet(k, v)
    \/ \E k \in Keys : EvictGet(k)
    \/ Tick

SpecEvict == InitEvict /\ [][NextEvict]_vars

\* this step is a _cache_set that removes an entry for capacity
EvictingSet == last'.op = "set" /\ last' # last /\ last'.popped # <<>>

\* this step is a _cache_get that finds its key (a hit)
GetHit == last'.op = "get" /\ last' # last /\ last'.ret # None

\* C11: whenever _cache_set removes an entry for capacity, the entry removed
\* is the earliest inserted of the entries present, and entries are removed
\* in the order of their insertion; a _cache_get hit leaves the entry to be
\* evicted next the same.
C11_InsertionOrderEviction ==
    [][/\ EvictingSet =>
            /\ last'.popped[1] \in CacheKeys(cache)
            /\ \A j \in CacheKeys(cache) :
                   hist.stamp[last'.popped[1]] <= hist.stamp[j]
            /\ hist.out < hist'.out
       /\ GetHit => cache' # <<>> /\ OldestKey(cache') = OldestKey(cache)]_vars

\* The entry inserted first is removed for capacity by the fifth _cache_set,
\* the third having assigned to a key already present (no entry is numbered 3).
C11_Witness ==
    /\ last.op = "set" /\ last.popped # <<>>
    /\ hist.out = 1
    /\ hist.n = 5
    /\ \A k \in Keys : hist.stamp[k] # 3

=============================================================================
